---- MODULE Spec2Model ----
(***************************************************************************)
(* cert-manager ACME DNS-01 webhook solver for the Bunny DNS provider      *)
(* (main.go).  The model holds the remote provider's state (the paginated  *)
(* zone listing and every zone's record list), the cluster secret store,   *)
(* and one process per invocation slot of the host framework.  A Present   *)
(* or CleanUp invocation is a chain of blocking remote calls; every remote *)
(* call is one atomic step, so that invocations the host runs at the same  *)
(* time interleave between their calls exactly as goroutines do.           *)
(*                                                                         *)
(* Strings the code cuts (the FQDN, the zone name) are sequences of        *)
(* one-character strings, so that strings.TrimSuffix is computed.          *)
(***************************************************************************)
EXTENDS Integers, Sequences, FiniteSets, TLC

\* ------------------------------------------------------------ bounds
\* Invocations the host starts in one behaviour.
MaxInv == 2
\* Last page number a model run lets resolveZoneId request (the code has no cap).
MaxPage == 3
\* Longest zone listing of the resolver's specification.
MaxZones == 6
\* Longest record list of the matcher's specification.
MaxRecs == 3

\* ------------------------------------------------- program constants
\* PaginationOptions.PerPage
PerPage == 3
\* recordType := 3 (TXT) and the code 3 hasTXTRecord compares with
TypeTXT == 3
\* var ttl int32 = 120
TTL == 120
\* A record type other than TXT (Bunny's code of a CNAME record).
TypeCNAME == TypeTXT - 1

\* ------------------------------------------------------------ strings
Dot == <<".">>
S_example_com == <<"e","x","a","m","p","l","e",".","c","o","m">>
S_example_com_dot == <<"e","x","a","m","p","l","e",".","c","o","m",".">>
S_acme_example_com_dot == <<"_","a","c","m","e","-","c","h","a","l","l","e","n","g","e",".","e","x","a","m","p","l","e",".","c","o","m",".">>
S_acme == <<"_","a","c","m","e","-","c","h","a","l","l","e","n","g","e">>
S_abc123 == <<"a","b","c","1","2","3">>
S_xyz == <<"x","y","z">>
S_b_io == <<"b",".","i","o">>
S_b_io_dot == <<"b",".","i","o",".">>
S_b_io_dotdot == <<"b",".","i","o",".",".">>
S_acme_b_io_dot == <<"_","a","c","m","e","-","c","h","a","l","l","e","n","g","e",".","b",".","i","o",".">>
S_other == <<"w","w","w">>
S_www_example_com_dot == <<"w","w","w",".","e","x","a","m","p","l","e",".","c","o","m",".">>

\* strings.HasSuffix
HasSuffix(s, suffix) ==
    /\ Len(s) >= Len(suffix)
    /\ SubSeq(s, Len(s) - Len(suffix) + 1, Len(s)) = suffix

\* strings.TrimSuffix: s without the suffix when it ends with it, else s.
TrimSuffix(s, suffix) ==
    IF HasSuffix(s, suffix) THEN SubSeq(s, 1, Len(s) - Len(suffix)) ELSE s

\* recordName := strings.TrimSuffix(strings.TrimSuffix(fqdn, zone), ".")
RecordName(c) == TrimSuffix(TrimSuffix(c.ResolvedFQDN, c.ResolvedZone), Dot)

\* Mutant: the trailing dot is left on the zone name.
ZoneDomain_Untrimmed(zoneName) == zoneName

\* domain := strings.TrimSuffix(zoneName, ".")
ZoneDomain(zoneName) == TrimSuffix(zoneName, Dot)

\* ------------------------------------------------------------- inputs
Procs == {1, 2}
Ops == {"Present", "CleanUp"}

Challenge(fqdn, zone, key) ==
    [ResolvedFQDN |-> fqdn, ResolvedZone |-> zone, Key |-> key]

ChA == Challenge(S_acme_example_com_dot, S_example_com_dot, S_abc123)
ChB == Challenge(S_acme_example_com_dot, S_example_com_dot, S_xyz)
ChC == Challenge(S_acme_b_io_dot, S_b_io_dot, S_abc123)
\* A zone name without its dot, and one with two: one dot is stripped.
ChD == Challenge(S_acme_b_io_dot, S_b_io, S_abc123)
ChE == Challenge(S_acme_b_io_dot, S_b_io_dotdot, S_abc123)

\* Another name in the zone of ChA.
ChW == Challenge(S_www_example_com_dot, S_example_com_dot, S_abc123)

Challenges == {ChA, ChB, ChC}
ResolveChallenges == {ChA, ChC, ChD, ChE}

\* ch.Config: absent, JSON that does not decode, or a decoded apiSecretRef.
Config(kind, name, key) == [kind |-> kind, Name |-> name, Key |-> key]
NilConfig == Config("nil", "", "")
BadJSON == Config("bad", "", "")
GoodConfig == Config("json", "bunny-secret", "api-key")
Configs ==
    { NilConfig, BadJSON, GoodConfig,
      Config("json", "", "api-key"),
      Config("json", "absent-secret", "api-key"),
      Config("json", "bunny-secret", "wrong-key") }

\* What the host passes to an invocation: every challenge with a working
\* configuration, and one challenge with every configuration.
Inputs == (Challenges \X {GoodConfig}) \cup ({ChA} \X Configs)
ResolveInputs == ResolveChallenges \X {GoodConfig}

\* The secrets of the challenge's namespace: secret name -> the keys of Data.
SecretStore == [n \in {"bunny-secret"} |-> {"api-key"}]

Zone(id, domain) == [ID |-> id, Domain |-> domain]
Record(id, type, name, value) ==
    [ID |-> id, Type |-> type, Name |-> name, Value |-> value, TTL |-> TTL]
NoRecord == [ID |-> 0]

VARIABLES
    zoneList,   \* provider: the zones of the account, in listing order
    lying,      \* provider: HasMoreItems is true on every page
    records,    \* provider: zone ID -> the zone's records, in order
    nextId,     \* provider: the ID the next created record gets
    pc,         \* per process: the remote call the invocation is about to make
    op,         \* per process: Present or CleanUp
    ch,         \* per process: the ChallengeRequest
    cfg,        \* per process: ch.Config
    page,       \* per process: resolveZoneId's i
    zoneID,     \* per process: the resolved zone ID
    rec,        \* per process: what hasTXTRecord returned
    nmatch,     \* per process: matching records in the list hasTXTRecord read
    res,        \* per process: what the invocation returned
    calls,      \* per process: the remote calls the invocation issued, in order
    seq,        \* per process: the number of its invocation
    started     \* invocations started so far

vars == << zoneList, lying, records, nextId, pc, op, ch, cfg, page, zoneID,
           rec, nmatch, res, calls, seq, started >>

provider == << zoneList, lying >>

\* ----------------------------------------------------------- provider
Min(a, b) == IF a < b THEN a ELSE b

\* DNSZone.List: the items of one page of the listing ...
ListItems(n) ==
    SubSeq(zoneList, PerPage * (n - 1) + 1, Min(PerPage * n, Len(zoneList)))

\* ... and its HasMoreItems flag.
ListHasMore(n) == lying \/ PerPage * n < Len(zoneList)

\* The pages of the listing: at least one (an empty listing has one empty page).
NumPages ==
    IF Len(zoneList) = 0 THEN 1 ELSE (Len(zoneList) + PerPage - 1) \div PerPage

ZoneIds == {zoneList[j].ID : j \in 1..Len(zoneList)}

\* DNSZone.AddDNSRecord: the zone's list with the new record at its end.
AddDNSRecordResult(recs, id, opts) ==
    Append(recs, [ID |-> id, Type |-> opts.Type, Name |-> opts.Name,
                  Value |-> opts.Value, TTL |-> opts.TTL])

RECURSIVE RemoveById(_, _)
RemoveById(recs, id) ==
    IF recs = <<>> THEN <<>>
    ELSE IF Head(recs).ID = id THEN Tail(recs)
    ELSE <<Head(recs)>> \o RemoveById(Tail(recs), id)

\* DNSZone.DeleteDNSRecord: the zone's list without the record of that ID.
DeleteDNSRecordResult(recs, id) == RemoveById(recs, id)

HasId(recs, id) == \E j \in 1..Len(recs) : recs[j].ID = id

\* Outcomes of a mutating call: done, refused, or done remotely with the
\* response lost.
Outcomes == {"ok", "fail", "applied_fail"}

\* --------------------------------------------- the code's pure parts
\* loadConfig: (cfg, err).  A nil Config decodes to the zero bunnyConfig.
loadConfig(c) ==
    IF c.kind = "nil" THEN [err |-> FALSE, Name |-> "", Key |-> ""]
    ELSE IF c.kind = "bad" THEN [err |-> TRUE, Name |-> "", Key |-> ""]
    ELSE [err |-> FALSE, Name |-> c.Name, Key |-> c.Key]

\* resolveZoneId's inner loop over zones.Items: the first item whose Domain
\* equals the domain, or none.
RECURSIVE ZoneScan(_, _)
ZoneScan(items, domain) ==
    IF items = <<>> THEN [found |-> FALSE, ID |-> 0]
    ELSE IF Head(items).Domain = domain THEN [found |-> TRUE, ID |-> Head(items).ID]
    ELSE ZoneScan(Tail(items), domain)

\* Mutant: the value is not compared.
RecordMatches_AnyValue(r, name, key) == r.Type = TypeTXT /\ r.Name = name

\* Mutant: the type is not compared.
RecordMatches_AnyType(r, name, key) == r.Name = name /\ r.Value = key

\* hasTXTRecord's condition on one record.
RecordMatches(r, name, key) ==
    r.Type = TypeTXT /\ r.Name = name /\ r.Value = key

\* hasTXTRecord's loop over zone.Records: the first record that matches, or nil.
RECURSIVE RecordScan(_, _, _)
RecordScan(recs, name, key) ==
    IF recs = <<>> THEN NoRecord
    ELSE IF RecordMatches(Head(recs), name, key) THEN Head(recs)
    ELSE RecordScan(Tail(recs), name, key)

\* Mutant: Present creates the record whether or not one matched.
PresentBranch_AlwaysAdd(val) == "add"

\* What Present does with hasTXTRecord's answer: skip, or go on to create.
PresentBranch(val) == IF val # NoRecord THEN "done" ELSE "add"

\* What CleanUp does with hasTXTRecord's answer: return, or go on to delete.
CleanUpBranch(record) == IF record = NoRecord THEN "done" ELSE "delete"

\* Mutant: the record is named by the full FQDN.
AddOptions_FullName(c) ==
    [Type |-> TypeTXT, Value |-> c.Key, Name |-> c.ResolvedFQDN, TTL |-> TTL]

\* The bunny.AddOrUpdateDNSRecordOptions Present builds.
AddOptions(c) ==
    [Type |-> TypeTXT, Value |-> c.Key, Name |-> RecordName(c), TTL |-> TTL]

\* Mutant: the loop ends after a page without the domain, more items or not.
ListOutcome_OnePage(reply, found, hasMore) ==
    IF ~reply THEN "error" ELSE IF found THEN "found" ELSE "notfound"

\* Mutant: the loop goes on to the next page without reading HasMoreItems.
ListOutcome_NoStop(reply, found, hasMore) ==
    IF ~reply THEN "error" ELSE IF found THEN "found" ELSE "next"

\* Mutant: a failed page request is skipped and the loop goes on.
ListOutcome_SkipError(reply, found, hasMore) ==
    IF ~reply THEN "next"
    ELSE IF found THEN "found"
    ELSE IF hasMore = FALSE THEN "notfound"
    ELSE "next"

\* What one round of resolveZoneId's loop does with the reply to its page
\* request: return the error, return the ID found, go on to the next page, or
\* leave the loop and fail.
ListOutcome(reply, found, hasMore) ==
    IF ~reply THEN "error"
    ELSE IF found THEN "found"
    ELSE IF hasMore = FALSE THEN "notfound"
    ELSE "next"

\* Mutant: the ID after the matched record's.
DeleteTarget_Next(record) == record.ID + 1

\* The record ID CleanUp passes to DeleteDNSRecord.
DeleteTarget(record) == record.ID

\* History: how many records of a list are TXT records of that name and value.
MatchCount(recs, name, key) ==
    Cardinality({j \in 1..Len(recs) :
        recs[j].Type = 3 /\ recs[j].Name = name /\ recs[j].Value = key})

\* ------------------------------------------------------------ actions
Call(p, c) == calls' = [calls EXCEPT ![p] = Append(@, c)]

\* The invocation returns r.
Return(p, r) ==
    /\ pc' = [pc EXCEPT ![p] = "done"]
    /\ res' = [res EXCEPT ![p] = r]

\* The host calls Present or CleanUp with a challenge.
Start(p, inputs) ==
    /\ pc[p] \in {"idle", "done"}
    /\ started < MaxInv
    /\ \E o \in Ops, in \in inputs :
        /\ op' = [op EXCEPT ![p] = o]
        /\ ch' = [ch EXCEPT ![p] = in[1]]
        /\ cfg' = [cfg EXCEPT ![p] = in[2]]
    /\ pc' = [pc EXCEPT ![p] = "client"]
    /\ page' = [page EXCEPT ![p] = 0]
    /\ zoneID' = [zoneID EXCEPT ![p] = 0]
    /\ rec' = [rec EXCEPT ![p] = NoRecord]
    /\ nmatch' = [nmatch EXCEPT ![p] = 0]
    /\ res' = [res EXCEPT ![p] = "running"]
    /\ calls' = [calls EXCEPT ![p] = <<>>]
    /\ seq' = [seq EXCEPT ![p] = started + 1]
    /\ started' = started + 1
    /\ UNCHANGED << provider, records, nextId >>

\* newAPIClient: loadConfig, then getAccessKeyFromSecret with its one call to
\* the cluster API, which fails when the secret is absent or the call does.
newAPIClient(p) ==
    /\ pc[p] = "client"
    /\ LET c == loadConfig(cfg[p]) IN
         IF c.err THEN Return(p, "config_decode") /\ UNCHANGED << calls, page >>
         ELSE IF c.Name = "" THEN Return(p, "undefined_secret") /\ UNCHANGED << calls, page >>
         ELSE \E reply \in BOOLEAN :
            LET got == reply /\ c.Name \in DOMAIN SecretStore IN
            /\ Call(p, [api |-> "secret", Name |-> c.Name, ok |-> got])
            /\ IF ~got THEN Return(p, "secret_error") /\ UNCHANGED page
               ELSE IF c.Key \notin SecretStore[c.Name]
                    THEN Return(p, "key_not_found") /\ UNCHANGED page
               ELSE /\ pc' = [pc EXCEPT ![p] = "list"]
                    /\ page' = [page EXCEPT ![p] = 1]
                    /\ UNCHANGED res
    /\ UNCHANGED << provider, records, nextId, op, ch, cfg, zoneID, rec, nmatch,
                    seq, started >>

\* resolveZoneId, one round of its loop: request page i, scan its items, return
\* the ID found, or stop on HasMoreItems = false, or go on with i + 1.
resolveZoneId(p) ==
    /\ pc[p] = "list"
    /\ page[p] <= MaxPage
    /\ \E reply \in BOOLEAN :
        /\ Call(p, [api |-> "list", Page |-> page[p], PerPage |-> PerPage, ok |-> reply])
        /\ LET z == ZoneScan(ListItems(page[p]), ZoneDomain(ch[p].ResolvedZone))
               out == ListOutcome(reply, z.found, ListHasMore(page[p]))
           IN CASE out = "error" ->
                    Return(p, "list_error") /\ UNCHANGED << page, zoneID >>
                [] out = "found" ->
                    /\ zoneID' = [zoneID EXCEPT ![p] = z.ID]
                    /\ pc' = [pc EXCEPT ![p] = "get"]
                    /\ UNCHANGED << page, res >>
                [] out = "next" ->
                    /\ page' = [page EXCEPT ![p] = @ + 1]
                    /\ UNCHANGED << pc, res, zoneID >>
                [] OTHER ->
                    Return(p, "zone_not_found") /\ UNCHANGED << page, zoneID >>
    /\ UNCHANGED << provider, records, nextId, op, ch, cfg, rec, nmatch, seq, started >>

\* hasTXTRecord: fetch the zone, scan its records; then the caller's branch on
\* the answer (Present skips when a record matched, CleanUp returns when none did).
hasTXTRecord(p) ==
    /\ pc[p] = "get"
    /\ \E reply \in BOOLEAN :
        /\ Call(p, [api |-> "get", Zone |-> zoneID[p], ok |-> reply])
        /\ IF ~reply
           THEN Return(p, "get_error") /\ UNCHANGED << rec, nmatch >>
           ELSE LET found == RecordScan(records[zoneID[p]], RecordName(ch[p]), ch[p].Key)
                    next == IF op[p] = "Present" THEN PresentBranch(found)
                            ELSE CleanUpBranch(found)
                IN /\ rec' = [rec EXCEPT ![p] = found]
                   /\ nmatch' = [nmatch EXCEPT ![p] =
                          MatchCount(records[zoneID[p]], RecordName(ch[p]), ch[p].Key)]
                   /\ IF next = "done" THEN Return(p, "ok")
                      ELSE pc' = [pc EXCEPT ![p] = next] /\ UNCHANGED res
    /\ UNCHANGED << provider, records, nextId, op, ch, cfg, page, zoneID, seq, started >>

\* Present's DNSZone.AddDNSRecord call.
AddDNSRecord(p) ==
    /\ pc[p] = "add"
    /\ \E out \in Outcomes :
        /\ Call(p, [api |-> "add", Zone |-> zoneID[p], opts |-> AddOptions(ch[p]),
                    ok |-> (out = "ok")])
        /\ IF out = "fail" THEN UNCHANGED << records, nextId >>
           ELSE /\ records' = [records EXCEPT ![zoneID[p]] =
                                  AddDNSRecordResult(@, nextId, AddOptions(ch[p]))]
                /\ nextId' = nextId + 1
        /\ Return(p, IF out = "ok" THEN "ok" ELSE "add_error")
    /\ UNCHANGED << provider, op, ch, cfg, page, zoneID, rec, nmatch, seq, started >>

\* CleanUp's DNSZone.DeleteDNSRecord call with the matched record's ID; the
\* provider refuses an ID the zone no longer holds.
DeleteDNSRecord(p) ==
    /\ pc[p] = "delete"
    /\ \E out \in Outcomes :
        LET id == DeleteTarget(rec[p])
            held == HasId(records[zoneID[p]], id)
            done == held /\ out = "ok"
        IN /\ Call(p, [api |-> "delete", Zone |-> zoneID[p], ID |-> id, ok |-> done])
           /\ IF held /\ out # "fail"
              THEN records' = [records EXCEPT ![zoneID[p]] =
                                  DeleteDNSRecordResult(@, id)]
              ELSE UNCHANGED records
           /\ Return(p, IF done THEN "ok" ELSE "delete_error")
    /\ UNCHANGED << provider, nextId, op, ch, cfg, page, zoneID, rec, nmatch, seq,
                    started >>

Step(p) ==
    \/ newAPIClient(p)
    \/ resolveZoneId(p)
    \/ hasTXTRecord(p)
    \/ AddDNSRecord(p)
    \/ DeleteDNSRecord(p)

\* --------------------------------------------------------- initial states
IdleProcs ==
    /\ pc = [p \in Procs |-> "idle"]
    /\ op = [p \in Procs |-> "Present"]
    /\ ch = [p \in Procs |-> ChA]
    /\ cfg = [p \in Procs |-> NilConfig]
    /\ page = [p \in Procs |-> 0]
    /\ zoneID = [p \in Procs |-> 0]
    /\ rec = [p \in Procs |-> NoRecord]
    /\ nmatch = [p \in Procs |-> 0]
    /\ res = [p \in Procs |-> "running"]
    /\ calls = [p \in Procs |-> <<>>]
    /\ seq = [p \in Procs |-> 0]
    /\ started = 0

\* The accounts of the main specifications: the domain on the first page, and
\* the domain on the second page behind a zone that is listed twice.  (A provider
\* whose HasMoreItems is always true is part of the resolver's specification.)
Accounts ==
    { [zones |-> <<Zone(1, S_example_com), Zone(2, S_b_io)>>, lying |-> FALSE],
      [zones |-> <<Zone(1, S_b_io), Zone(2, S_b_io), Zone(3, S_other),
                   Zone(4, S_example_com)>>, lying |-> FALSE] }

\* Record lists a zone may start with: none, records that each differ from
\* the challenge's in one of type, value and name, and a record held twice.
CleanLists ==
    { <<>>,
      <<Record(1, TypeCNAME, S_acme, S_abc123), Record(2, TypeTXT, S_acme, S_xyz),
        Record(3, TypeTXT, S_other, S_abc123)>> }
DuplicateLists ==
    { <<Record(1, TypeTXT, S_acme, S_abc123), Record(2, TypeTXT, S_acme, S_xyz),
        Record(3, TypeTXT, S_acme, S_abc123)>> }

\* The zones named example.com start with lst, every other zone with one TXT
\* record of the same name and value as the challenge's.
InitialRecords(zones, lst) ==
    [z \in {zones[j].ID : j \in 1..Len(zones)} |->
        IF \E j \in 1..Len(zones) : zones[j].ID = z /\ zones[j].Domain = S_example_com
        THEN lst
        ELSE <<Record(10 + z, TypeTXT, S_acme, S_abc123)>>]

StartLists == CleanLists \cup DuplicateLists

\* Any account and any zone contents; no invocation has started.
Init ==
    /\ \E a \in Accounts, lst \in StartLists :
        /\ zoneList = a.zones
        /\ lying = a.lying
        /\ records = InitialRecords(a.zones, lst)
    /\ nextId = 20
    /\ IdleProcs

\* The host runs invocations concurrently.
Next == \E p \in Procs : Start(p, Inputs) \/ Step(p)

Spec == Init /\ [][Next]_vars

\* The host starts an invocation only after the one before has returned.
Quiet(p) == \A q \in Procs \ {p} : pc[q] \in {"idle", "done"}

SeqNext == \E p \in Procs : (Start(p, Inputs) /\ Quiet(p)) \/ Step(p)

SeqSpec == Init /\ [][SeqNext]_vars

\* ------------------------------------------- the resolver on its own
\* Every listing of up to MaxZones zones over two domains, honest or lying;
\* one invocation slot, which runs up to the end of resolveZoneId.
Listings ==
    UNION { { [j \in 1..n |-> Zone(100 + j, f[j])] :
                f \in [1..n -> {S_example_com, S_b_io}] } : n \in 0..MaxZones }

ResolveInit ==
    /\ zoneList \in Listings
    /\ lying \in BOOLEAN
    /\ records = [z \in ZoneIds |-> <<>>]
    /\ nextId = 20
    /\ IdleProcs

ResolveNext ==
    \/ Start(1, ResolveInputs)
    \/ newAPIClient(1)
    \/ resolveZoneId(1)

\* The invocation is a goroutine of its own and every request is answered.
ResolveSpec ==
    /\ ResolveInit
    /\ [][ResolveNext]_vars
    /\ WF_vars(newAPIClient(1))
    /\ WF_vars(resolveZoneId(1))

\* -------------------------------------------- the matcher on its own
RecordLists ==
    UNION { { [j \in 1..n |-> Record(j, f[j][1], f[j][2], f[j][3])] :
                f \in [1..n -> {TypeTXT, TypeCNAME} \X {S_acme, S_other}
                                 \X {S_abc123, S_xyz}] } : n \in 0..MaxRecs }

\* An invocation that has resolved its zone on the first page and is about to
\* fetch the zone, whose records are any list of up to MaxRecs records.
MatchInit ==
    /\ zoneList = <<Zone(1, S_example_com)>>
    /\ lying = FALSE
    /\ \E lst \in RecordLists : records = [z \in {1} |-> lst]
    /\ nextId = 20
    /\ pc = [p \in Procs |-> IF p = 1 THEN "get" ELSE "idle"]
    /\ \E o \in Ops : op = [p \in Procs |-> IF p = 1 THEN o ELSE "Present"]
    /\ \E c \in {ChA, ChB, ChW} : ch = [p \in Procs |-> IF p = 1 THEN c ELSE ChA]
    /\ cfg = [p \in Procs |-> IF p = 1 THEN GoodConfig ELSE NilConfig]
    /\ page = [p \in Procs |-> IF p = 1 THEN 1 ELSE 0]
    /\ zoneID = [p \in Procs |-> IF p = 1 THEN 1 ELSE 0]
    /\ rec = [p \in Procs |-> NoRecord]
    /\ nmatch = [p \in Procs |-> 0]
    /\ res = [p \in Procs |-> "running"]
    /\ calls = [p \in Procs |->
                 IF p = 1
                 THEN << [api |-> "secret", Name |-> GoodConfig.Name, ok |-> TRUE],
                         [api |-> "list", Page |-> 1, PerPage |-> PerPage, ok |-> TRUE] >>
                 ELSE <<>>]
    /\ seq = [p \in Procs |-> IF p = 1 THEN 1 ELSE 0]
    /\ started = 1

MatchNext == hasTXTRecord(1)

MatchSpec == MatchInit /\ [][MatchNext]_vars

\* =================================================================== claims
\* What an invocation's call log says.
CallsOf(p, a) == SelectSeq(calls[p], LAMBDA c : c.api = a)
ListedPages(p) == [j \in 1..Len(CallsOf(p, "list")) |-> CallsOf(p, "list")[j].Page]
Adds(p) == Len(CallsOf(p, "add"))
Deletes(p) == Len(CallsOf(p, "delete"))
AllOk(p) == \A j \in 1..Len(calls[p]) : calls[p][j].ok
Fetched(p) == \E j \in 1..Len(calls[p]) : calls[p][j].api = "get" /\ calls[p][j].ok
UpTo(n) == [j \in 1..n |-> j]
\* resolveZoneId has been entered and has returned.
ResolveReturned(p) == CallsOf(p, "list") # <<>> /\ pc[p] # "list"
\* Something of process p changes in this step.
Moved(p) == << pc[p], calls[p], page[p], seq[p] >>' # << pc[p], calls[p], page[p], seq[p] >>

\* A zone name with one trailing dot stripped.
StripOneDot(s) ==
    IF s # <<>> /\ s[Len(s)] = "." THEN SubSeq(s, 1, Len(s) - 1) ELSE s
Target(p) == StripOneDot(ch[p].ResolvedZone)
\* The place in the listing of the first zone of that domain, 0 when there is none.
FirstListed(d) ==
    LET S == {j \in 1..Len(zoneList) : zoneList[j].Domain = d}
    IN IF S = {} THEN 0 ELSE CHOOSE j \in S : \A k \in S : j <= k
PageOf(j) == ((j - 1) \div PerPage) + 1
PageHasDomain(n, d) ==
    \E j \in 1..Len(zoneList) : PageOf(j) = n /\ zoneList[j].Domain = d

\* The places in a record list of the TXT records of that name and value.
Matching(recs, name, key) ==
    {j \in 1..Len(recs) : recs[j].Type = 3 /\ recs[j].Name = name /\ recs[j].Value = key}
FirstMatching(recs, name, key) ==
    LET S == Matching(recs, name, key)
    IN IF S = {} THEN 0 ELSE CHOOSE j \in S : \A k \in S : j <= k
Without(recs, j) == SubSeq(recs, 1, j - 1) \o SubSeq(recs, j + 1, Len(recs))

\* q is the invocation the host ran right after p returned, with the same input.
Repeated(p, q) ==
    /\ p # q
    /\ pc[p] = "done" /\ pc[q] = "done"
    /\ seq[p] >= 1 /\ seq[q] = seq[p] + 1
    /\ ch[q] = ch[p] /\ cfg[q] = cfg[p]

\* ------------------------------------------------------------------- C1
\* C1 as claimed, for invocations run in sequence and every remote call of the
\* second one answered: after a successful Present, a second Present with the
\* same input succeeds, issues no create call, and the two calls together
\* issued exactly one create call, whatever the zone held.
C1_PresentTwiceCreatesExactlyOne ==
    \A p, q \in Procs :
        (Repeated(p, q) /\ op[p] = "Present" /\ op[q] = "Present"
            /\ res[p] = "ok" /\ AllOk(q))
        => /\ res[q] = "ok"
           /\ Adds(q) = 0
           /\ Adds(p) + Adds(q) = 1

\* C1 amended: after a successful Present, a second Present with the same input
\* issues no create call and, when none of its remote calls fails, succeeds;
\* the two calls together issued exactly one create call when the zone held no
\* matching record before the first, and none when it already held one.
C1_PresentIdempotent ==
    \A p, q \in Procs :
        (Repeated(p, q) /\ op[p] = "Present" /\ op[q] = "Present" /\ res[p] = "ok")
        => /\ Adds(q) = 0
           /\ AllOk(q) => res[q] = "ok"
           /\ Adds(p) + Adds(q) = (IF nmatch[p] = 0 THEN 1 ELSE 0)
           /\ Fetched(q) => nmatch[q] = nmatch[p] + Adds(p)

C1_Witness ==
    \E p, q \in Procs :
        /\ Repeated(p, q) /\ op[p] = "Present" /\ op[q] = "Present"
        /\ res[p] = "ok" /\ res[q] = "ok"
        /\ nmatch[p] = 0 /\ Adds(p) = 1 /\ Adds(q) = 0 /\ nmatch[q] = 1

\* ------------------------------------------------------------------- C2
\* The first half of C2: a CleanUp that has fetched the resolved zone and found
\* no matching record in it has returned success without a delete or create call.
C2_CleanZoneIsNoOp ==
    \A p \in Procs :
        (op[p] = "CleanUp" /\ Fetched(p) /\ nmatch[p] = 0)
        => /\ pc[p] = "done" /\ res[p] = "ok"
           /\ Deletes(p) = 0 /\ Adds(p) = 0
           /\ rec[p] = NoRecord

\* C2 as claimed, for invocations run in sequence: a CleanUp that finds no TXT
\* record of the derived label and the key in the resolved zone succeeds and
\* issues no delete (or create) call; and a second CleanUp after a successful
\* first one, when none of its remote calls fails, succeeds without a delete call.
C2_SecondCleanUpIsNoOp ==
    /\ C2_CleanZoneIsNoOp
    /\ \A p, q \in Procs :
        (Repeated(p, q) /\ op[p] = "CleanUp" /\ op[q] = "CleanUp"
            /\ res[p] = "ok" /\ AllOk(q))
        => res[q] = "ok" /\ Deletes(q) = 0

\* C2 amended: a CleanUp that finds no matching record succeeds and issues no
\* delete (or create) call; a second CleanUp after a successful first one is
\* such a no-op when the zone held at most one matching record before the
\* first, and otherwise its one delete call is for a further duplicate, a
\* record other than the one the first deleted.
C2_CleanUpIdempotent ==
    /\ C2_CleanZoneIsNoOp
    /\ \A p, q \in Procs :
        (Repeated(p, q) /\ op[p] = "CleanUp" /\ op[q] = "CleanUp" /\ res[p] = "ok")
        => /\ (nmatch[p] <= 1 /\ AllOk(q)) => (res[q] = "ok" /\ Deletes(q) = 0)
           /\ Fetched(q) => nmatch[q] = (IF nmatch[p] = 0 THEN 0 ELSE nmatch[p] - 1)
           /\ Deletes(q) > 0 =>
                /\ nmatch[p] >= 2 /\ Deletes(q) = 1
                /\ rec[q].ID # rec[p].ID
                /\ << rec[q].Type, rec[q].Name, rec[q].Value >>
                     = << rec[p].Type, rec[p].Name, rec[p].Value >>

C2_Witness ==
    \E p, q \in Procs :
        /\ Repeated(p, q) /\ op[p] = "CleanUp" /\ op[q] = "CleanUp"
        /\ res[p] = "ok" /\ Deletes(p) = 1 /\ nmatch[p] = 1
        /\ Fetched(q) /\ nmatch[q] = 0 /\ res[q] = "ok" /\ Deletes(q) = 0
        /\ Len(records[zoneID[q]]) >= 1

\* ------------------------------------------------------------------- C3
NoDuplicateTXT ==
    \A z \in DOMAIN records : \A i, j \in 1..Len(records[z]) :
        (/\ records[z][i].Type = 3 /\ records[z][j].Type = 3
         /\ records[z][i].Name = records[z][j].Name
         /\ records[z][i].Value = records[z][j].Value) => i = j

\* C3 as claimed: under any interleaving of Present and CleanUp invocations, a
\* zone that holds no TXT record twice (same name and value) never comes to
\* hold one twice: no step leads from a duplicate-free state to one with a
\* duplicate.
C3_NoDuplicateEver == [][NoDuplicateTXT => NoDuplicateTXT']_vars

\* ------------------------------------------------------------------- C4
\* C4: when the target domain (the zone name with one trailing dot stripped) is
\* first listed on page k, resolveZoneId requests pages 1, 2, ... in order and
\* never one after k, never fails with not-found, and, once it has returned
\* with every request answered, has requested exactly pages 1..k and returned
\* the ID of the first listed zone of that domain.
C4_ResolveStopsAtFirstMatch ==
    \A p \in Procs :
        LET j0 == FirstListed(Target(p))
            n == Len(CallsOf(p, "list"))
        IN (pc[p] # "idle" /\ j0 # 0)
           => /\ ListedPages(p) = UpTo(n)
              /\ n <= PageOf(j0)
              /\ res[p] # "zone_not_found"
              /\ (ResolveReturned(p) /\ AllOk(p))
                    => /\ n = PageOf(j0)
                       /\ pc[p] # "done"
                       /\ zoneID[p] = zoneList[j0].ID
              /\ (ResolveReturned(p) /\ ~AllOk(p))
                    => pc[p] = "done" /\ res[p] = "list_error"

\* The domain is found on the second page, where it is listed twice.
C4_Witness ==
    \E p \in Procs :
        LET j0 == FirstListed(Target(p))
        IN /\ pc[p] = "get" /\ j0 # 0 /\ PageOf(j0) = 2
           /\ ListedPages(p) = <<1, 2>>
           /\ zoneID[p] = zoneList[j0].ID
           /\ \E j \in (j0 + 1)..Len(zoneList) : zoneList[j].Domain = Target(p)

\* ------------------------------------------------------------------- C5
\* C5: when no page lists the target domain and the provider's last page
\* reports no more items, resolveZoneId requests pages 1, 2, ... in order, never
\* one after the last, never returns a zone ID, and, once it has returned with
\* every request answered, has requested each page 1..N once and failed with
\* not-found; an empty listing fails after one request.
C5_ResolveNotFoundAfterAllPages ==
    \A p \in Procs :
        LET n == Len(CallsOf(p, "list"))
        IN (pc[p] # "idle" /\ FirstListed(Target(p)) = 0 /\ ~lying)
           => /\ ListedPages(p) = UpTo(n)
              /\ n <= NumPages
              /\ pc[p] \notin {"get", "add", "delete"}
              /\ res[p] # "ok"
              /\ (ResolveReturned(p) /\ AllOk(p))
                    => /\ n = NumPages
                       /\ pc[p] = "done" /\ res[p] = "zone_not_found"
              /\ (ResolveReturned(p) /\ AllOk(p) /\ zoneList = <<>>) => n = 1

\* Two full pages were read before not-found.
C5_Witness ==
    \E p \in Procs :
        /\ pc[p] = "done" /\ res[p] = "zone_not_found"
        /\ ~lying /\ NumPages = 2 /\ ListedPages(p) = <<1, 2>>
        /\ FirstListed(Target(p)) = 0

\* ------------------------------------------------------------------- C6
\* C6: once hasTXTRecord has fetched the zone, it returned a record if and only
\* if the zone's list holds a record of type 3 whose name equals the target
\* name and whose value equals the target value, and the record returned is
\* the first such record of the list (so never one that differs in type, name
\* or value).
C6_MatcherReturnsFirstExactMatch ==
    \A p \in Procs :
        Fetched(p) =>
            LET recs == records[zoneID[p]]
                j0 == FirstMatching(recs, RecordName(ch[p]), ch[p].Key)
            IN /\ (rec[p] # NoRecord) <=> (j0 # 0)
               /\ j0 # 0 => rec[p] = recs[j0]
               /\ rec[p] # NoRecord =>
                    /\ rec[p].Type = 3
                    /\ rec[p].Name = RecordName(ch[p])
                    /\ rec[p].Value = ch[p].Key

\* The second of three records is returned: the first differs from the target
\* in its type alone, the third matches as well.
C6_Witness ==
    \E p \in Procs :
        LET recs == records[zoneID[p]]
        IN /\ Fetched(p) /\ Len(recs) = 3 /\ rec[p] = recs[2]
           /\ recs[1].Type # 3 /\ recs[1].Name = recs[2].Name
           /\ recs[1].Value = recs[2].Value
           /\ << recs[3].Type, recs[3].Name, recs[3].Value >>
                = << recs[2].Type, recs[2].Name, recs[2].Value >>

\* ------------------------------------------------------------------- C7
EndToEndPresent(p) ==
    /\ op[p] = "Present" /\ ch[p] = ChA
    /\ pc[p] = "done" /\ res[p] = "ok" /\ nmatch[p] = 0

\* C7: for FQDN _acme-challenge.example.com., zone example.com. and key abc123,
\* run in sequence against a zone example.com without a matching record: a
\* successful Present derived the label _acme-challenge, resolved the first
\* listed zone example.com and issued exactly one create call, with that name,
\* value abc123, TTL 120 and type 3; a CleanUp with the same input run right
\* after it, when none of its remote calls fails, found the record Present
\* created and issued exactly one delete call, with that record's ID on the
\* same zone ID, after which the zone holds no matching record.
C7_EndToEnd ==
    /\ \A p \in Procs :
        EndToEndPresent(p)
        => /\ RecordName(ch[p]) = S_acme
           /\ FirstListed(S_example_com) # 0
           /\ zoneID[p] = zoneList[FirstListed(S_example_com)].ID
           /\ CallsOf(p, "add") =
                << [api |-> "add", Zone |-> zoneID[p],
                    opts |-> [Type |-> 3, Value |-> S_abc123, Name |-> S_acme,
                              TTL |-> 120],
                    ok |-> TRUE] >>
           /\ Deletes(p) = 0
    /\ \A p, q \in Procs :
        (EndToEndPresent(p) /\ Repeated(p, q) /\ op[q] = "CleanUp" /\ AllOk(q))
        => /\ res[q] = "ok"
           /\ zoneID[q] = zoneID[p]
           /\ rec[q] = [ID |-> nextId - 1, Type |-> 3, Name |-> S_acme,
                        Value |-> S_abc123, TTL |-> 120]
           /\ CallsOf(q, "delete") =
                << [api |-> "delete", Zone |-> zoneID[p], ID |-> nextId - 1,
                    ok |-> TRUE] >>
           /\ Adds(q) = 0
           /\ Matching(records[zoneID[p]], S_acme, S_abc123) = {}

C7_Witness ==
    \E p, q \in Procs :
        /\ EndToEndPresent(p) /\ Repeated(p, q) /\ op[q] = "CleanUp"
        /\ res[q] = "ok" /\ Deletes(q) = 1 /\ Adds(p) = 1
        /\ Len(records[zoneID[p]]) >= 2

\* ------------------------------------------------------------------- C8
\* The failures before any mutation: config decode, credential reference,
\* secret lookup, a page request, zone not found, the record fetch.
EarlyFailures ==
    { "config_decode", "undefined_secret", "secret_error", "key_not_found",
      "list_error", "zone_not_found", "get_error" }

LastCall(p) == calls[p][Len(calls[p])]

FailedEarly(p) ==
    /\ \* a remote call that failed is the invocation's last call ...
       \A j \in 1..(Len(calls[p]) - 1) : calls[p][j].ok
    /\ \* ... and the invocation has returned an error
       (\E j \in 1..Len(calls[p]) : ~calls[p][j].ok)
          => (pc[p] = "done" /\ res[p] # "ok")
    /\ \* a configuration that does not decode, or names no secret, fails before any call
       (pc[p] \notin {"idle", "client"} /\ cfg[p].kind = "bad")
          => (pc[p] = "done" /\ res[p] = "config_decode" /\ calls[p] = <<>>)
    /\ (pc[p] \notin {"idle", "client"} /\ cfg[p].kind # "bad"
            /\ (cfg[p].kind = "nil" \/ cfg[p].Name = ""))
          => (pc[p] = "done" /\ res[p] = "undefined_secret" /\ calls[p] = <<>>)
    /\ (pc[p] = "done" /\ res[p] \in EarlyFailures)
          => /\ Adds(p) = 0 /\ Deletes(p) = 0
             /\ ListedPages(p) = UpTo(Len(CallsOf(p, "list")))
             /\ res[p] = "secret_error"
                  => (Len(calls[p]) = 1 /\ LastCall(p).api = "secret" /\ ~LastCall(p).ok)
             /\ res[p] = "key_not_found"
                  => (Len(calls[p]) = 1 /\ LastCall(p).api = "secret" /\ LastCall(p).ok)
             /\ res[p] = "list_error" => (LastCall(p).api = "list" /\ ~LastCall(p).ok)
             /\ res[p] = "zone_not_found" => (LastCall(p).api = "list" /\ LastCall(p).ok)
             /\ res[p] = "get_error" => (LastCall(p).api = "get" /\ ~LastCall(p).ok)

\* C8: in every step of concurrent Present and CleanUp invocations: a remote
\* call that failed is the last call its invocation issued, and the invocation
\* has returned an error; an invocation that returned one of the early
\* failures issued no create or delete call and requested no zone-list page
\* twice; and no step of an invocation before its create or delete call, the
\* failing step included, changes a record of any zone.  (The state of an
\* invocation changes in its own steps only, so it is read after each of them.)
C8_FailurePropagatesAtOnce ==
    /\ \A p \in Procs : FailedEarly(p)
    /\ [][ \A p \in Procs :
             Moved(p) => /\ FailedEarly(p)'
                         /\ pc[p] \notin {"add", "delete"} => records' = records ]_vars

\* The request for the second page failed, in a zone that holds records.
C8_Witness ==
    \E p \in Procs :
        /\ pc[p] = "done" /\ res[p] = "list_error"
        /\ ListedPages(p) = <<1, 2>>
        /\ \E z \in DOMAIN records : Len(records[z]) >= 2

\* ------------------------------------------------------------------- C9
\* resolveZoneId has returned only if its last page request failed, listed the
\* target domain, or reported no more items.
C9_ReturnsOnlyOnStop ==
    \A p \in Procs :
        ResolveReturned(p) =>
            LET c == CallsOf(p, "list")[Len(CallsOf(p, "list"))]
            IN \/ ~c.ok
               \/ PageHasDomain(c.Page, Target(p))
               \/ ~ListHasMore(c.Page)

\* With has-more true on every page and the target domain on none, and every
\* request answered, resolveZoneId is still in its loop, one page further with
\* every request.
C9_LoopsWhileMore ==
    \A p \in Procs :
        (lying /\ FirstListed(Target(p)) = 0 /\ page[p] >= 1 /\ AllOk(p))
        => /\ pc[p] = "list"
           /\ ListedPages(p) = UpTo(page[p] - 1)

\* C9: resolveZoneId returns only when a page request failed, listed the
\* target domain or reported has-more false; under a provider that is honest
\* about has-more or lists the target domain it eventually returns; under one
\* that reports has-more true on every page and never lists the domain it
\* stays in its loop, each answered request raising the page number by one.
C9_TerminatesIffProviderStops ==
    /\ [][ /\ C9_ReturnsOnlyOnStop'
           /\ C9_LoopsWhileMore'
           /\ \A p \in Procs :
                (pc[p] = "list" /\ pc'[p] = "list" /\ calls'[p] # calls[p])
                    => page'[p] = page[p] + 1 ]_vars
    /\ \A p \in {1} :
         (pc[p] = "list" /\ (~lying \/ FirstListed(Target(p)) # 0)) ~> (pc[p] # "list")

\* The loop has gone past the last page of the listing.
C9_Witness ==
    \E p \in Procs :
        /\ lying /\ FirstListed(Target(p)) = 0 /\ pc[p] = "list" /\ AllOk(p)
        /\ page[p] > NumPages + 1

\* ------------------------------------------------------------------ C10
MutationsOf(p) ==
    /\ op[p] = "Present" => (Adds(p) <= 1 /\ Deletes(p) = 0)
    /\ op[p] = "CleanUp" =>
        /\ Adds(p) = 0 /\ Deletes(p) <= 1
        /\ Deletes(p) = 1 =>
            /\ CallsOf(p, "delete")[1].Zone = zoneID[p]
            /\ CallsOf(p, "delete")[1].ID = rec[p].ID
            /\ rec[p].Type = 3
            /\ rec[p].Name = RecordName(ch[p])
            /\ rec[p].Value = ch[p].Key

\* What one step may do to the records of zone z.
FrameOf(z) ==
    \/ records'[z] = records[z]
    \/ \E p \in Procs :
        /\ Moved(p) /\ zoneID[p] = z
        /\ \/ /\ op[p] = "Present" /\ pc[p] = "add"
              /\ Len(records'[z]) = Len(records[z]) + 1
              /\ SubSeq(records'[z], 1, Len(records[z])) = records[z]
           \/ /\ op[p] = "CleanUp" /\ pc[p] = "delete"
              /\ LET j0 == FirstMatching(records[z], RecordName(ch[p]), ch[p].Key)
                 IN j0 # 0 /\ records'[z] = Without(records[z], j0)

\* C10: under any interleaving, a Present invocation issues at most one create
\* call and no delete call, a CleanUp invocation at most one delete call, for
\* the record it matched (TXT, derived label, key), and no create call; and a
\* step changes the records of no zone but the resolved zone of the invocation
\* that takes it, where a Present only appends one record and a CleanUp only
\* removes the first record matching (TXT, derived label, key), every other
\* record staying as it was, in its place.  (An invocation's call log changes
\* in its own steps only, so it is read after each of them.)
C10_MutationFrame ==
    /\ \A p \in Procs : MutationsOf(p)
    /\ [][ /\ \A p \in Procs : Moved(p) => MutationsOf(p)'
           /\ DOMAIN records' = DOMAIN records
           /\ \A z \in DOMAIN records : FrameOf(z) ]_vars

\* A CleanUp has deleted its record from a zone that still holds a duplicate of
\* it and a record of another value.
C10_Witness ==
    \E p \in Procs :
        /\ op[p] = "CleanUp" /\ pc[p] = "done" /\ res[p] = "ok" /\ Deletes(p) = 1
        /\ Matching(records[zoneID[p]], RecordName(ch[p]), ch[p].Key) # {}
        /\ Len(records[zoneID[p]]) >= 2
====
